---- MODULE Spec2Model ----
(***************************************************************************)
(* Model of ts-php-lib: the UFTimezone offset cache and resolver           *)
(* (src/src/tools/UFTimezone.ts).                                          *)
(*                                                                         *)
(* getOffset is an async method: its body up to the await of               *)
(* execFileAsync runs without interruption (GetOffsetStart), the call is   *)
(* then suspended until the php process settles, and the continuation      *)
(* (ExecResolve for a fulfilled promise, ExecReject for a rejected one)    *)
(* again runs without interruption.  Several calls may be suspended at the *)
(* same time.  The system clock read by UFSystem.time() is the variable    *)
(* now; it may advance between any two of these steps (Tick).              *)
(***************************************************************************)
EXTENDS Integers, Sequences, FiniteSets, TLC

\* ------------------------------------------------------------------ bounds
\* number of getOffset calls made on the resolver (they may overlap)
MaxCalls == 2
\* number of times the clock advances
MaxTicks == 2

\* ------------------------------------------------------- program constants
CACHE_LIFE == 60 * 60 * 1000

\* zone names the calls are made with; "Mars/Olympus" is in neither table
Zones == {"Europe/London", "Mars/Olympus"}

\* amounts by which the clock advances between two steps
TimeSteps == {1, CACHE_LIFE - 1, CACHE_LIFE}

\* ------------------------------------------------------ javascript numbers
\* a javascript number is an integer or NaN
Num(v) == [isNaN |-> FALSE, val |-> v]
NaN == [isNaN |-> TRUE, val |-> 0]

\* a + b, a - b and a * b on javascript numbers
JsAdd(a, b) == IF a.isNaN \/ b.isNaN THEN NaN ELSE Num(a.val + b.val)
JsSub(a, b) == IF a.isNaN \/ b.isNaN THEN NaN ELSE Num(a.val - b.val)
JsMul(a, b) == IF a.isNaN \/ b.isNaN THEN NaN ELSE Num(a.val * b.val)

\* ------------------------------------------------------------------- Date
\* The time zone of the server: one without daylight saving time, on UTC, and
\* one that is an hour ahead of UTC until the instant DstStart and two hours
\* from then on.
ServerZones == {"fixed", "switching"}
DstStart == 36000000

\* new Date(value): the Date with that time value (every value of the model
\* lies within the range of a Date, so none is clipped)
NewDate(value) == [t |-> value]

\* date.getTime()
GetTime(date) == date.t

\* date.getTimezoneOffset() on a server in the given zone: the minutes to add
\* to the local time at that date to reach UTC; NaN for an invalid Date
GetTimezoneOffset(server, date) ==
  IF date.t.isNaN THEN NaN
  ELSE IF server = "fixed" THEN Num(0)
  ELSE IF date.t.val < DstStart THEN Num(-60)
  ELSE Num(-120)

\* time values of the dates handed to the conversions
DateInputs == {0, DstStart - 7200000, DstStart - 1, DstStart + 5}

\* ------------------------------------------------------------- parseInt
Digits == {"0", "1", "2", "3", "4", "5", "6", "7", "8", "9"}
WhiteSpace == {" ", "\n"}

DigitVal(ch) ==
  CASE ch = "0" -> 0 [] ch = "1" -> 1 [] ch = "2" -> 2 [] ch = "3" -> 3
    [] ch = "4" -> 4 [] ch = "5" -> 5 [] ch = "6" -> 6 [] ch = "7" -> 7
    [] ch = "8" -> 8 [] ch = "9" -> 9

\* the text without its leading white space
RECURSIVE SkipWhite(_)
SkipWhite(s) ==
  IF s # <<>> /\ Head(s) \in WhiteSpace THEN SkipWhite(Tail(s)) ELSE s

\* the value of the longest prefix of digits of s, continuing from acc
RECURSIVE DigitsValue(_, _)
DigitsValue(s, acc) ==
  IF s # <<>> /\ Head(s) \in Digits
    THEN DigitsValue(Tail(s), acc * 10 + DigitVal(Head(s)))
    ELSE acc

\* parseInt(text): leading white space is skipped, one sign is accepted, the
\* longest run of decimal digits is converted and the rest is ignored; NaN
\* when there is no digit at that place
ParseInt(text) ==
  LET s == SkipWhite(text)
      neg == s # <<>> /\ Head(s) = "-"
      body == IF s # <<>> /\ Head(s) \in {"-", "+"} THEN Tail(s) ELSE s
  IN IF body = <<>> \/ Head(body) \notin Digits
       THEN NaN
       ELSE Num((IF neg THEN -1 ELSE 1) * DigitsValue(body, 0))

\* ------------------------------------------------------ what php can print
\* standard output of the php process: a number, or a text that is no number
Stdouts ==
  { <<"-", "1", "8", "0", "0", "\n">>,
    <<"W", "a", "r", "n">> }

\* standard error of the php process: empty, or a diagnostic message
Stderrs == { <<>>, <<"E", "r", "r">> }

\* ways in which the promise of execFileAsync is rejected
ExecErrors == {"spawn_error", "nonzero_exit"}

\* ------------------------------------------------------------------ strings
\* A string is the sequence of its characters.

\* the least and the greatest of a set of numbers that is not empty
Min(S) == CHOOSE x \in S : \A y \in S : x <= y
Max(S) == CHOOSE x \in S : \A y \in S : x >= y

\* text.indexOf(sub, from): the first place at or after from (counted from 0)
\* where sub occurs in text, -1 when there is none
IndexOfFrom(text, sub, from) ==
  LET places == {at \in from..(Len(text) - Len(sub)) :
                   SubSeq(text, at + 1, at + Len(sub)) = sub}
  IN  IF places = {} THEN -1 ELSE Min(places)

\* text.indexOf(sub)
IndexOf(text, sub) == IndexOfFrom(text, sub, 0)

\* the zone names the methods that do not wait are called with
ZoneNames ==
  {"America/New_York", "Europe/Paris", "Europe/London",
   "UTC", "america/london", "Mars/Olympus"}

\* the characters of a zone name
ZoneChars(zone) ==
  CASE zone = "America/New_York" ->
         <<"A", "m", "e", "r", "i", "c", "a", "/", "N", "e", "w", "_", "Y", "o", "r", "k">>
    [] zone = "Europe/Paris" ->
         <<"E", "u", "r", "o", "p", "e", "/", "P", "a", "r", "i", "s">>
    [] zone = "Europe/London" ->
         <<"E", "u", "r", "o", "p", "e", "/", "L", "o", "n", "d", "o", "n">>
    [] zone = "UTC" ->
         <<"U", "T", "C">>
    [] zone = "america/london" ->
         <<"a", "m", "e", "r", "i", "c", "a", "/", "l", "o", "n", "d", "o", "n">>
    [] zone = "Mars/Olympus" ->
         <<"M", "a", "r", "s", "/", "O", "l", "y", "m", "p", "u", "s">>

\* --------------------------------------------------------- parsePhpConfig
\* The file content is the sequence of its characters; places are counted
\* from 1.

\* \s and the line terminators that . does not match
RegexSpace == {" ", "\t", "\n", "\r"}
LineTerminators == {"\n", "\r"}

\* sub stands in text at place i
StartsWith(text, i, sub) ==
  /\ i + Len(sub) - 1 <= Len(text)
  /\ SubSeq(text, i, i + Len(sub) - 1) = sub

\* the first place from i on that holds a line terminator, or one past the end
LineEnd(text, i) ==
  Min({j \in i..Len(text) : text[j] \in LineTerminators}
      \cup {Max({i, Len(text) + 1})})

\* the first place from i on that holds no white space, or one past the end
SpaceEnd(text, i) ==
  Min({j \in i..Len(text) : text[j] \notin RegexSpace}
      \cup {Max({i, Len(text) + 1})})

\* the last place in from..to that holds ch, or 0
LastPlace(text, ch, from, to) ==
  Max({j \in from..to : text[j] = ch} \cup {0})

\* The value of an expression, once: the steps below are chained as
\* TheOne({Step(t) : t \in {text}}), so that each step works on the text the
\* step before it has produced.
TheOne(S) == CHOOSE out \in S : TRUE

\* text.replace(sub, by) with a string sub: the first occurrence only
ReplaceFirst(text, sub, by) ==
  LET at == IndexOf(text, sub)
  IN  IF at < 0 THEN text
      ELSE SubSeq(text, 1, at) \o by
           \o SubSeq(text, at + Len(sub) + 1, Len(text))

\* text.replace(/sub/g, by) for a literal sub: every occurrence from place i
\* on, left to right
RECURSIVE ReplaceAll(_, _, _, _)
ReplaceAll(text, i, sub, by) ==
  LET places == {j \in i..Len(text) : StartsWith(text, j, sub)}
  IN  IF places = {} THEN SubSeq(text, i, Len(text))
      ELSE SubSeq(text, i, Min(places) - 1) \o by
           \o ReplaceAll(text, Min(places) + Len(sub), sub, by)

\* the place after the */ that closes a /* at place i, or 0: the first */
\* that starts after the /*
BlockCommentEnd(text, i) ==
  IF StartsWith(text, i, <<"/", "*">>)
       /\ IndexOfFrom(text, <<"*", "/">>, i + 1) >= 0
    THEN IndexOfFrom(text, <<"*", "/">>, i + 1) + 3
    ELSE 0

\* line 34, replace(/\/\*(.|[\r\n])*?\*+\//gi, ''): each /* up to and with
\* its */ goes; a /* without one stays
RECURSIVE StripBlockComments(_, _)
StripBlockComments(text, i) ==
  LET places == {j \in i..Len(text) : BlockCommentEnd(text, j) > 0}
  IN  IF places = {} THEN SubSeq(text, i, Len(text))
      ELSE SubSeq(text, i, Min(places) - 1)
           \o StripBlockComments(text, BlockCommentEnd(text, Min(places)))

\* the place after the line comment at place i, or 0: // with a character
\* after it on its line, up to the end of the line
LineCommentEnd(text, i) ==
  IF StartsWith(text, i, <<"/", "/">>) /\ LineEnd(text, i + 2) > i + 2
    THEN LineEnd(text, i + 2)
    ELSE 0

\* line 35, replace(/\/\/.+/gi, '')
RECURSIVE StripLineComments(_, _)
StripLineComments(text, i) ==
  LET places == {j \in i..Len(text) : LineCommentEnd(text, j) > 0}
  IN  IF places = {} THEN SubSeq(text, i, Len(text))
      ELSE SubSeq(text, i, Min(places) - 1)
           \o StripLineComments(text, LineCommentEnd(text, Min(places)))

\* the place after the use declaration at place i, or 0: use in any mix of
\* capitals and small letters, up to and with the last ; of its line
UseEnd(text, i) ==
  IF /\ i + 2 <= Len(text)
     /\ text[i] \in {"u", "U"}
     /\ text[i + 1] \in {"s", "S"}
     /\ text[i + 2] \in {"e", "E"}
     /\ LastPlace(text, ";", i + 3, LineEnd(text, i + 3) - 1) > 0
    THEN LastPlace(text, ";", i + 3, LineEnd(text, i + 3) - 1) + 1
    ELSE 0

\* line 37, replace(/use.*;/gi, '')
RECURSIVE StripUse(_, _)
StripUse(text, i) ==
  LET places == {j \in i..Len(text) : UseEnd(text, j) > 0}
  IN  IF places = {} THEN SubSeq(text, i, Len(text))
      ELSE SubSeq(text, i, Min(places) - 1)
           \o StripUse(text, UseEnd(text, Min(places)))

\* line 39: the first <?php, the first 'return ' and the first ; go
StripFrame(text) ==
  TheOne({ReplaceFirst(t2, <<";">>, <<>>) : t2 \in
    {ReplaceFirst(t1, <<"r", "e", "t", "u", "r", "n", " ">>, <<>>) : t1 \in
      {ReplaceFirst(text, <<"<", "?", "p", "h", "p">>, <<>>)}}})

\* The match of /=>\s+([^0-9"'].*),/ at place i with \s+ taking k characters:
\* the place of its last , or 0 when there is no match.
QuoteMatchEnd(text, i, k) ==
  LET first == i + 2 + k
  IN  IF first > Len(text) \/ text[first] \in Digits \cup {"\"", "'"} THEN 0
      ELSE LastPlace(text, ",", first + 1, LineEnd(text, first + 1) - 1)

\* The match at place i, where => has to stand: \s+ takes as much as it can
\* and gives back one character at a time until the rest matches.
QuoteMatch(text, i) ==
  LET spaces == SpaceEnd(text, i + 2) - (i + 2)
      taken == {k \in 1..spaces : QuoteMatchEnd(text, i, k) > 0}
  IN  IF StartsWith(text, i, <<"=", ">">>) /\ taken # {}
        THEN QuoteMatchEnd(text, i, Max(taken))
        ELSE 0

\* lines 46 to 49: the value in single quotes with its own single quotes
\* escaped, unless it is true, false or null
QuoteValue(x) ==
  IF x \in { <<"t", "r", "u", "e">>, <<"f", "a", "l", "s", "e">>,
             <<"n", "u", "l", "l">> }
    THEN x
    ELSE <<"'">> \o ReplaceAll(x, 1, <<"'">>, <<"\\", "'">>) \o <<"'">>

\* lines 41 to 51, replace(/=>\s+([^0-9"'].*),/gi, callback): the callback
\* takes => with the white space after it and the last , off the match (lines
\* 43 and 44) and returns '=> ' + the value + ','
RECURSIVE QuoteBareValues(_, _)
QuoteBareValues(text, i) ==
  LET places == {j \in i..Len(text) : QuoteMatch(text, j) > 0}
      at == Min(places)
      end == QuoteMatch(text, at)
  IN  IF places = {} THEN SubSeq(text, i, Len(text))
      ELSE SubSeq(text, i, at - 1) \o <<"=", ">", " ">>
           \o QuoteValue(SubSeq(text, SpaceEnd(text, at + 2), end - 1))
           \o <<",">> \o QuoteBareValues(text, end + 1)

\* line 53: every [ becomes {, every ] becomes }, every => becomes :
ToBraces(text) ==
  TheOne({ReplaceAll(t2, 1, <<"=", ">">>, <<":">>) : t2 \in
    {ReplaceAll(t1, 1, <<"]">>, <<"}">>) : t1 \in
      {ReplaceAll(text, 1, <<"[">>, <<"{">>)}}})

\* the place after the } that follows the , at place i with only white space
\* between them, or 0
TrailingCommaEnd(text, i) ==
  IF /\ text[i] = ","
     /\ SpaceEnd(text, i + 1) <= Len(text)
     /\ text[SpaceEnd(text, i + 1)] = "}"
    THEN SpaceEnd(text, i + 1) + 1
    ELSE 0

\* line 55, replace(/,(\s|[\r\n])*?}/gi, '}'): such a , goes, and the white
\* space with it
RECURSIVE DropTrailingCommas(_, _)
DropTrailingCommas(text, i) ==
  LET places == {j \in i..Len(text) : TrailingCommaEnd(text, j) > 0}
  IN  IF places = {} THEN SubSeq(text, i, Len(text))
      ELSE SubSeq(text, i, Min(places) - 1) \o <<"}">>
           \o DropTrailingCommas(text, TrailingCommaEnd(text, Min(places)))

\* line 57: every ' becomes "
\* Faulty variant: the single quotes stay.
ToDoubleQuotesNone(text) == text
ToDoubleQuotes(text) == ReplaceAll(text, 1, <<"'">>, <<"\"">>)

\* lines 34 to 57: the text handed to JSON.parse
ToJson(config) ==
  TheOne({ToDoubleQuotes(t7) : t7 \in
    {DropTrailingCommas(t6, 1) : t6 \in
      {ToBraces(t5) : t5 \in
        {QuoteBareValues(t4, 1) : t4 \in
          {StripFrame(t3) : t3 \in
            {StripUse(t2, 1) : t2 \in
              {StripLineComments(t1, 1) : t1 \in
                {StripBlockComments(config, 1)}}}}}}}})

\* ------------------------------------------------------------- JSON.parse
\* A value is a record of its type, its text (of a string, a number, true,
\* false, null) and its members (of an object, as pairs of name and value;
\* after line 53 the text has no [ left, so there are no arrays).
JsString(chars) == [type |-> "string", text |-> chars, members |-> {}]
JsNumber(chars) == [type |-> "number", text |-> chars, members |-> {}]
JsTrue == [type |-> "boolean", text |-> <<"t", "r", "u", "e">>,
           members |-> {}]
JsFalse == [type |-> "boolean", text |-> <<"f", "a", "l", "s", "e">>,
            members |-> {}]
JsNull == [type |-> "null", text |-> <<"n", "u", "l", "l">>, members |-> {}]
JsObject(members) == [type |-> "object", text |-> <<>>, members |-> members]

\* obj[name] = value: a member of that name is replaced
SetMember(members, name, value) ==
  {m \in members : m[1] # name} \cup {<<name, value>>}

\* what a parsing step gives: whether it matched, the value, the next place
JsonNone == [ok |-> FALSE, value |-> JsNull, next |-> 0]
JsonSome(value, next) == [ok |-> TRUE, value |-> value, next |-> next]

JsonSpace == {" ", "\t", "\n", "\r"}

JsonSpaceEnd(text, i) ==
  Min({j \in i..Len(text) : text[j] \notin JsonSpace}
      \cup {Max({i, Len(text) + 1})})

\* the character an escape \ch stands for, "" when there is no such escape
\* (the files have no \u and no \b escapes)
Unescape(ch) ==
  CASE ch = "\"" -> "\"" [] ch = "\\" -> "\\" [] ch = "/" -> "/"
    [] ch = "n" -> "\n" [] ch = "r" -> "\r" [] ch = "t" -> "\t"
    [] ch = "f" -> "\f"
    [] OTHER -> ""

\* the characters of a string from place i, the one after its opening ", on
RECURSIVE JsonChars(_, _, _)
JsonChars(text, i, acc) ==
  IF i > Len(text) \/ text[i] \in {"\n", "\r", "\t"} THEN JsonNone
  ELSE IF text[i] = "\"" THEN JsonSome(JsString(acc), i + 1)
  ELSE IF text[i] = "\\"
    THEN IF i + 1 > Len(text) \/ Unescape(text[i + 1]) = "" THEN JsonNone
         ELSE JsonChars(text, i + 2, Append(acc, Unescape(text[i + 1])))
  ELSE JsonChars(text, i + 1, Append(acc, text[i]))

\* the first place from i on that holds no digit, or one past the end
DigitsEnd(text, i) ==
  Min({j \in i..Len(text) : text[j] \notin Digits}
      \cup {Max({i, Len(text) + 1})})

\* a number at place i: -, then 0 or digits that do not start with 0, then
\* . and digits if any (the files have no exponents)
JsonNumber(text, i) ==
  LET int == IF text[i] = "-" THEN i + 1 ELSE i
      intEnd == IF int <= Len(text) /\ text[int] = "0" THEN int + 1
                ELSE DigitsEnd(text, int)
      fracEnd == IF intEnd <= Len(text) /\ text[intEnd] = "."
                 THEN DigitsEnd(text, intEnd + 1)
                 ELSE intEnd
  IN  IF intEnd = int \/ fracEnd = intEnd + 1 THEN JsonNone
      ELSE JsonSome(JsNumber(SubSeq(text, i, fracEnd - 1)), fracEnd)

RECURSIVE JsonValue(_, _)
RECURSIVE JsonMembers(_, _, _)

\* a value at the first place from i on that holds no white space
JsonValue(text, i) ==
  LET at == JsonSpaceEnd(text, i)
  IN  IF at > Len(text) THEN JsonNone
      ELSE IF text[at] = "{"
        THEN LET inner == JsonSpaceEnd(text, at + 1)
             IN  IF inner <= Len(text) /\ text[inner] = "}"
                   THEN JsonSome(JsObject({}), inner + 1)
                   ELSE JsonMembers(text, inner, {})
      ELSE IF text[at] = "\"" THEN JsonChars(text, at + 1, <<>>)
      ELSE IF StartsWith(text, at, JsTrue.text) THEN JsonSome(JsTrue, at + 4)
      ELSE IF StartsWith(text, at, JsFalse.text) THEN JsonSome(JsFalse, at + 5)
      ELSE IF StartsWith(text, at, JsNull.text) THEN JsonSome(JsNull, at + 4)
      ELSE IF text[at] \in Digits \cup {"-"} THEN JsonNumber(text, at)
      ELSE JsonNone

\* the members of an object from place i, where a name has to start, on
JsonMembers(text, i, members) ==
  IF i > Len(text) \/ text[i] # "\"" THEN JsonNone
  ELSE LET name == JsonChars(text, i + 1, <<>>)
           colon == JsonSpaceEnd(text, name.next)
           value == JsonValue(text, colon + 1)
           after == JsonSpaceEnd(text, value.next)
           all == SetMember(members, name.value.text, value.value)
       IN  IF ~name.ok \/ colon > Len(text) \/ text[colon] # ":" THEN JsonNone
           ELSE IF ~value.ok \/ after > Len(text) THEN JsonNone
           ELSE IF text[after] = "}" THEN JsonSome(JsObject(all), after + 1)
           ELSE IF text[after] = ","
             THEN JsonMembers(text, JsonSpaceEnd(text, after + 1), all)
           ELSE JsonNone

\* JSON.parse(text): one value with nothing but white space around it, or a
\* SyntaxError
JsonParse(text) ==
  LET parsed == JsonValue(text, 1)
  IN  IF parsed.ok /\ JsonSpaceEnd(text, parsed.next) > Len(text)
        THEN parsed
        ELSE JsonNone

\* ------------------------------------------------------------ static tables
\* the entries of s_winterTimezones for the modelled names
s_winterTimezones ==
  [z \in {"Europe/London", "Europe/Paris", "America/New_York", "UTC"} |->
    CASE z = "Europe/London" -> 0
      [] z = "Europe/Paris" -> 3600
      [] z = "America/New_York" -> -14400
      [] z = "UTC" -> 0]

\* the entries of s_summerTimezones for the modelled names
s_summerTimezones ==
  [z \in {"Europe/London", "Europe/Paris", "America/New_York", "UTC"} |->
    CASE z = "Europe/London" -> 3600
      [] z = "Europe/Paris" -> 7200
      [] z = "America/New_York" -> -14400
      [] z = "UTC" -> 0]

\* ------------------------------------------------------------------- state
VARIABLES
  now,           \* the value UFSystem.time() returns
  ticks,         \* how often the clock has advanced
  heap,          \* the Offset objects: object id -> [offset, time]
  m_cache,       \* UFTimezone.m_cache: zone name -> object id
  nCalls,        \* number of getOffset calls started
  pc,            \* per call: "idle", "await" (suspended in execFileAsync), "done"
  aPhpTimezone,  \* per call: its argument
  time,          \* per call: its local constant time
  offset,        \* per call: its local constant offset (an object id)
  execs,         \* per call: number of execFileAsync invocations it made
  logged,        \* per call: "none", "debug" or "error" (m_log)
  result,        \* per call: how it completed and with what value
  sync,          \* the last call of a method that does not wait, with its result
  php            \* the call of UFPhp.parsePhpConfig

\* the variables of getOffset
cacheVars == <<now, ticks, heap, m_cache, nCalls, pc, aPhpTimezone, time,
               offset, execs, logged, result>>

vars == <<now, ticks, heap, m_cache, nCalls, pc, aPhpTimezone, time, offset,
          execs, logged, result, sync, php>>

Calls == 1..MaxCalls

NoResult == [kind |-> "none", value |-> Num(0)]
Return(v) == [kind |-> "return", value |-> v]
Throw == [kind |-> "throw", value |-> Num(0)]

\* ------------------------------------------------------------------ helpers
\* new Offset().
\* Faulty variant: the time starts at 0.
NewOffsetZero == [offset |-> Num(0), time |-> 0]
NewOffset == [offset |-> Num(0), time |-> -CACHE_LIFE]

\* the test of line 119: the offset has not expired at time t.
\* Faulty variants: a lifetime of one minute, a non-strict comparison, and a
\* test that also passes while a refresh of the same Offset is pending.
IsFreshMinute(o, t) == o.time + 60 * 1000 > t
IsFreshInclusive(o, t) == o.time + CACHE_LIFE >= t
IsFreshOrPending(o, t) ==
  \/ o.time + CACHE_LIFE > t
  \/ \E c \in Calls : pc[c] = "await" /\ heap[offset[c]] = o
IsFresh(o, t) == o.time + CACHE_LIFE > t

\* UFTimezone.s_summerTimezones.get(zone) || 0.
\* Faulty variants: no table at all, and the winter table.
FallbackZero(zone) == Num(0)
FallbackWinter(zone) ==
  IF zone \in DOMAIN s_winterTimezones THEN Num(s_winterTimezones[zone])
  ELSE Num(0)
Fallback(zone) ==
  IF zone \in DOMAIN s_summerTimezones /\ s_summerTimezones[zone] # 0
    THEN Num(s_summerTimezones[zone])
    ELSE Num(0)

\* if (stderr): a non-empty string is truthy
Truthy(stderr) == stderr # <<>>

\* lines 129 and 130: the Offset o after offset.offset = v; offset.time = t.
\* Faulty variant: the time is not written.
WriteOffsetOnly(o, v, t) == [offset |-> v, time |-> o.time]
WriteOffset(o, v, t) == [offset |-> v, time |-> t]

\* this.m_cache.set(zone, ref): the cache afterwards.
\* Faulty variants: the Offset is not put into the cache; the cache keeps
\* the last Offset only.
CacheSetNone(cache, zone, ref) == cache
CacheSetReplace(cache, zone, ref) == (zone :> ref)
CacheSet(cache, zone, ref) ==
  IF zone \in DOMAIN cache
    THEN [cache EXCEPT ![zone] = ref]
    ELSE cache @@ (zone :> ref)

\* no method has been called yet
NoSync == [op |-> "none"]

\* the calls of parsePhpConfig; the method is static and waits twice, so calls
\* can overlap
PhpCalls == {1, 2}

\* a call of parsePhpConfig that has not started
NoPhp == [pc |-> "idle", aFilename |-> "", error |-> "none",
          result |-> [kind |-> "none", value |-> JsNull]]

Init ==
  /\ now = 0
  /\ ticks = 0
  /\ heap = <<>>
  /\ m_cache = <<>>
  /\ nCalls = 0
  /\ pc = [c \in Calls |-> "idle"]
  /\ aPhpTimezone = [c \in Calls |-> "UTC"]
  /\ time = [c \in Calls |-> 0]
  /\ offset = [c \in Calls |-> 0]
  /\ execs = [c \in Calls |-> 0]
  /\ logged = [c \in Calls |-> "none"]
  /\ result = [c \in Calls |-> NoResult]
  /\ sync = NoSync
  /\ php = [c \in PhpCalls |-> NoPhp]

\* the clock advances; the clock is read at the start of a call only, so it is
\* left alone once the last call has started
Tick(d) ==
  /\ ticks < MaxTicks
  /\ nCalls < MaxCalls
  /\ ticks' = ticks + 1
  /\ now' = now + d
  /\ UNCHANGED <<heap, m_cache, nCalls, pc, aPhpTimezone, time, offset,
                 execs, logged, result, sync, php>>

\* javascript runs one piece of code at a time, and a call suspended at the
\* await of line 125 does not occupy the thread: other code may run.
\* Faulty variant: the thread is held until the php process has settled (a
\* synchronous wait in place of the await).
ThreadHeld == \A c \in Calls : pc[c] # "await"
ThreadFree == TRUE

\* getOffset(zone), from its entry to the return of line 120 or to the await
\* of line 125.  The call takes the next call id; an Offset it constructs
\* takes the call's id as object id.
GetOffsetStart(zone) ==
  /\ nCalls < MaxCalls
  /\ ThreadFree
  /\ LET c == nCalls + 1
         cached == zone \in DOMAIN m_cache
         ref == IF cached THEN m_cache[zone] ELSE c
         heap1 == IF cached THEN heap ELSE heap @@ (c :> NewOffset)
     IN /\ nCalls' = c
        /\ aPhpTimezone' = [aPhpTimezone EXCEPT ![c] = zone]
        /\ time' = [time EXCEPT ![c] = now]
        /\ offset' = [offset EXCEPT ![c] = ref]
        /\ heap' = heap1
        /\ IF IsFresh(heap1[ref], now)
             THEN /\ pc' = [pc EXCEPT ![c] = "done"]
                  /\ result' = [result EXCEPT ![c] = Return(heap1[ref].offset)]
                  /\ UNCHANGED execs
             ELSE /\ pc' = [pc EXCEPT ![c] = "await"]
                  /\ execs' = [execs EXCEPT ![c] = @ + 1]
                  /\ UNCHANGED result
  /\ UNCHANGED <<now, ticks, m_cache, logged, sync, php>>

\* the promise of execFileAsync is fulfilled with {stdout, stderr}:
\* lines 125 to 134, and line 139 after the error branch
ExecResolve(c, stdout, stderr) ==
  /\ pc[c] = "await"
  /\ pc' = [pc EXCEPT ![c] = "done"]
  /\ IF Truthy(stderr)
       THEN /\ logged' = [logged EXCEPT ![c] = "error"]
            /\ result' = [result EXCEPT ![c] = Return(Fallback(aPhpTimezone[c]))]
            /\ UNCHANGED <<heap, m_cache>>
       ELSE LET heap1 == [heap EXCEPT ![offset[c]] =
                            WriteOffset(@, ParseInt(stdout), time[c])]
            IN /\ heap' = heap1
               /\ logged' = [logged EXCEPT ![c] = "debug"]
               /\ m_cache' = CacheSet(m_cache, aPhpTimezone[c], offset[c])
               /\ result' = [result EXCEPT ![c] = Return(heap1[offset[c]].offset)]
  /\ UNCHANGED <<now, ticks, nCalls, aPhpTimezone, time, offset, execs,
                 sync, php>>

\* the promise of execFileAsync is rejected (php could not be started, or it
\* exited with a non-zero code): the catch of lines 135 to 137, then line 139.
\* Faulty variant: no catch, the rejection leaves getOffset as an exception.
ExecRejectUncaught(c, error) ==
  /\ pc[c] = "await"
  /\ pc' = [pc EXCEPT ![c] = "done"]
  /\ result' = [result EXCEPT ![c] = Throw]
  /\ UNCHANGED <<now, ticks, heap, m_cache, nCalls, aPhpTimezone, time,
                 offset, execs, logged, sync, php>>
\* Faulty variant: the fallback value is written to the Offset and cached.
ExecRejectStores(c, error) ==
  /\ pc[c] = "await"
  /\ pc' = [pc EXCEPT ![c] = "done"]
  /\ logged' = [logged EXCEPT ![c] = "error"]
  /\ heap' = [heap EXCEPT ![offset[c]] =
                WriteOffset(@, Fallback(aPhpTimezone[c]), time[c])]
  /\ m_cache' = CacheSet(m_cache, aPhpTimezone[c], offset[c])
  /\ result' = [result EXCEPT ![c] = Return(Fallback(aPhpTimezone[c]))]
  /\ UNCHANGED <<now, ticks, nCalls, aPhpTimezone, time, offset, execs, sync,
                 php>>
ExecReject(c, error) ==
  /\ pc[c] = "await"
  /\ pc' = [pc EXCEPT ![c] = "done"]
  /\ logged' = [logged EXCEPT ![c] = "error"]
  /\ result' = [result EXCEPT ![c] = Return(Fallback(aPhpTimezone[c]))]
  /\ UNCHANGED <<now, ticks, heap, m_cache, nCalls, aPhpTimezone, time,
                 offset, execs, sync, php>>

Next ==
  \/ \E d \in TimeSteps : Tick(d)
  \/ \E zone \in Zones : GetOffsetStart(zone)
  \/ \E c \in Calls, stdout \in Stdouts, stderr \in Stderrs :
       ExecResolve(c, stdout, stderr)
  \/ \E c \in Calls, error \in ExecErrors : ExecReject(c, error)

Spec == Init /\ [][Next]_vars

\* A caller that awaits every getOffset before it makes the next one, as a
\* caller does that feeds the result of one conversion into the next.
AllReturned == \A c \in Calls : pc[c] # "await"

GetOffsetAfterReturn(zone) == AllReturned /\ GetOffsetStart(zone)

NextSeq ==
  \/ \E d \in TimeSteps : Tick(d)
  \/ \E zone \in Zones : GetOffsetAfterReturn(zone)
  \/ \E c \in Calls, stdout \in Stdouts, stderr \in Stderrs :
       ExecResolve(c, stdout, stderr)
  \/ \E c \in Calls, error \in ExecErrors : ExecReject(c, error)

SeqSpec == Init /\ [][NextSeq]_vars

\* ------------------------------------------------------- date conversions
\* The conversions await getOffset and then compute a Date from its value;
\* they read and write nothing else.  Each is given here as the Date it
\* returns for the value off that its getOffset call returned.

\* getLocalFromServerDate(aServerDate, aPhpTimezone), lines 164 to 169.
\* Faulty variant: the server's offset is subtracted.
GetLocalFromServerDateMinus(server, aServerDate, off) ==
  NewDate(JsAdd(JsSub(GetTime(aServerDate),
                      JsMul(Num(60000), GetTimezoneOffset(server, aServerDate))),
                JsMul(Num(1000), off)))
GetLocalFromServerDate(server, aServerDate, off) ==
  NewDate(JsAdd(JsAdd(GetTime(aServerDate),
                      JsMul(Num(60000), GetTimezoneOffset(server, aServerDate))),
                JsMul(Num(1000), off)))

\* getServerFromLocalDate(aLocalDate, aPhpTimezone), lines 181 to 187.
\* Faulty variant: the zone's offset is added.
GetServerFromLocalDatePlus(server, aLocalDate, off) ==
  NewDate(JsSub(JsAdd(GetTime(aLocalDate), JsMul(Num(1000), off)),
                JsMul(Num(60000), GetTimezoneOffset(server, aLocalDate))))
GetServerFromLocalDate(server, aLocalDate, off) ==
  NewDate(JsSub(JsSub(GetTime(aLocalDate), JsMul(Num(1000), off)),
                JsMul(Num(60000), GetTimezoneOffset(server, aLocalDate))))

\* getUtcFromLocalDate(aLocalDate, aPhpTimezone), lines 199 to 202
GetUtcFromLocalDate(aLocalDate, off) ==
  NewDate(JsSub(GetTime(aLocalDate), JsMul(Num(1000), off)))

\* ------------------------------------------------------------------- is24
\* is24(aPhpTimezone), lines 150 to 152.
\* Faulty variant: one of the two names is enough for 24 hours.
Is24Either(zone) ==
  \/ IndexOf(zone, <<"A", "m", "e", "r", "i", "c", "a">>) < 0
  \/ IndexOf(zone, <<"L", "o", "n", "d", "o", "n">>) < 0
Is24(zone) ==
  /\ IndexOf(zone, <<"A", "m", "e", "r", "i", "c", "a">>) < 0
  /\ IndexOf(zone, <<"L", "o", "n", "d", "o", "n">>) < 0

\* a call of is24: it returns at once
Is24Call(zone) ==
  /\ sync' = [op |-> "is24", zone |-> zone, ret |-> Is24(ZoneChars(zone))]
  /\ UNCHANGED <<cacheVars, php>>

\* ----------------------------------------------------------- getLocalTime
\* '' + n for a whole number n that is not negative
DigitChar(d) == <<"0", "1", "2", "3", "4", "5", "6", "7", "8", "9">>[d + 1]

RECURSIVE NumberChars(_)
NumberChars(n) ==
  IF n < 10 THEN <<DigitChar(n)>>
  ELSE NumberChars(n \div 10) \o <<DigitChar(n % 10)>>

\* UFText.twoDigits(n): n with a leading 0 when it is below ten
TwoDigits(n) == IF n < 10 THEN <<"0">> \o NumberChars(n) ELSE NumberChars(n)

\* a || b for numbers: b when a is 0
\* Faulty variant: the left operand whatever it is.
JsOrLeft(a, b) == a
JsOr(a, b) == IF a = 0 THEN b ELSE a

\* the local dates getLocalTime gets back from getLocalFromServerDate, as
\* the hours, minutes and seconds the Date reports
LocalDates == [hours : 0..23, minutes : {5, 30}, seconds : {9, 30}]

\* the zones getLocalTime is called with
LocalTimeZones == {"America/New_York", "Europe/Paris", "Europe/London"}

\* getLocalTime(aServerDate, aPhpTimezone, anIncludeSeconds), lines 225 to
\* 230: the text built from the local date
GetLocalTime(localDate, zone, anIncludeSeconds) ==
  LET is24 == Is24(zone)
      hours == IF is24 THEN localDate.hours
               ELSE JsOr(localDate.hours % 12, 12)
      minutes == <<":">> \o TwoDigits(localDate.minutes)
      seconds == IF anIncludeSeconds
                 THEN <<":">> \o TwoDigits(localDate.seconds)
                 ELSE <<>>
      postfix == IF is24 THEN <<>>
                 ELSE IF localDate.hours < 12 THEN <<" ", "a", "m">> ELSE <<" ", "p", "m">>
  IN  NumberChars(hours) \o minutes \o seconds \o postfix

\* getLocalTime goes on after the local date has arrived (line 224) and
\* returns the text
GetLocalTimeResume(localDate, zone, anIncludeSeconds) ==
  /\ sync' = [op |-> "getLocalTime", zone |-> zone, localDate |-> localDate,
              anIncludeSeconds |-> anIncludeSeconds,
              ret |-> GetLocalTime(localDate, ZoneChars(zone),
                                   anIncludeSeconds)]
  /\ UNCHANGED <<cacheVars, php>>

\* The object the methods are called on: just constructed, or after one
\* getOffset call for Europe/London at time 0 that php answered with -1800.
ToolInit ==
  /\ now = 0
  /\ ticks = 0
  /\ time = [c \in Calls |-> 0]
  /\ \/ /\ nCalls = 0
        /\ heap = <<>>
        /\ m_cache = <<>>
        /\ pc = [c \in Calls |-> "idle"]
        /\ aPhpTimezone = [c \in Calls |-> "UTC"]
        /\ offset = [c \in Calls |-> 0]
        /\ execs = [c \in Calls |-> 0]
        /\ logged = [c \in Calls |-> "none"]
        /\ result = [c \in Calls |-> NoResult]
     \/ /\ nCalls = 1
        /\ heap = <<[offset |-> Num(-1800), time |-> 0]>>
        /\ m_cache = [zone \in {"Europe/London"} |-> 1]
        /\ pc = [c \in Calls |-> IF c = 1 THEN "done" ELSE "idle"]
        /\ aPhpTimezone = [c \in Calls |-> IF c = 1 THEN "Europe/London"
                                            ELSE "UTC"]
        /\ offset = [c \in Calls |-> IF c = 1 THEN 1 ELSE 0]
        /\ execs = [c \in Calls |-> IF c = 1 THEN 1 ELSE 0]
        /\ logged = [c \in Calls |-> IF c = 1 THEN "debug" ELSE "none"]
        /\ result = [c \in Calls |-> IF c = 1 THEN Return(Num(-1800))
                                      ELSE NoResult]
  /\ sync = NoSync
  /\ php = [c \in PhpCalls |-> NoPhp]

ToolNext ==
  \/ \E zone \in ZoneNames : Is24Call(zone)
  \/ \E localDate \in LocalDates, zone \in LocalTimeZones,
        anIncludeSeconds \in BOOLEAN :
       GetLocalTimeResume(localDate, zone, anIncludeSeconds)

ToolSpec == ToolInit /\ [][ToolNext]_vars

\* ------------------------------------------------------ parsePhpConfig calls
\* the files on the server: a configuration, one with comments, a use line, a
\* constant and an inner array, one that is a list, one that the process may
\* not read, and a name without a file
Filenames ==
  {"config.php", "commented.php", "broken.php", "secret.php", "missing.php"}

Readable(aFilename) ==
  aFilename \in {"config.php", "commented.php", "broken.php"}

FileContent(aFilename) ==
  CASE aFilename = "config.php" ->
    <<"<", "?", "p", "h", "p", "\n", "r", "e", "t", "u", "r", "n", " ", "[",
      "\n", " ", " ", "'", "a", "'", " ", "=", ">", " ", "1", ",", "\n", " ",
      " ", "'", "b", "'", " ", "=", ">", " ", "'", "x", "'", ",", "\n", " ",
      " ", "'", "c", "'", " ", "=", ">", " ", "t", "r", "u", "e", ",", "\n",
      "]", ";">>
    [] aFilename = "commented.php" ->
    <<"<", "?", "p", "h", "p", "\n", "/", "*", " ", "d", "b", " ", "*", "*",
      "/", "\n", "u", "s", "e", " ", "A", "\\", "B", ";", "\n", "r", "e",
      "t", "u", "r", "n", " ", "[", "\n", " ", "'", "k", "'", " ", "=", ">",
      " ", "E", "_", "A", "L", "L", ",", " ", "/", "/", " ", "x", "\n", " ",
      "'", "n", "'", " ", "=", ">", " ", "[", "\n", " ", " ", "'", "m", "'",
      " ", "=", ">", " ", "n", "u", "l", "l", ",", "\n", " ", "]", ",", "\n",
      "]", ";">>
    [] aFilename = "broken.php" ->
    <<"<", "?", "p", "h", "p", "\n", "r", "e", "t", "u", "r", "n", " ", "[",
      "1", ",", " ", "2", "]", ";">>

\* lines 60 to 63: the error is written to the console and false is returned
\* Faulty variant: no catch, the error leaves parsePhpConfig.
CatchRethrow(call, error) ==
  [call EXCEPT !.pc = "done", !.error = error,
               !.result = [kind |-> "throw", value |-> JsNull]]
Catch(call, error) ==
  [call EXCEPT !.pc = "done", !.error = error, !.result = Return(JsFalse)]

\* lines 27 to 29: the call starts and waits for access
ParsePhpConfigStart(c, aFilename) ==
  /\ php[c].pc = "idle"
  /\ php' = [php EXCEPT ![c] = [@ EXCEPT !.pc = "access",
                                         !.aFilename = aFilename]]
  /\ UNCHANGED <<cacheVars, sync>>

\* access is fulfilled: line 30 starts reading the file
AccessResolve(c) ==
  /\ php[c].pc = "access"
  /\ Readable(php[c].aFilename)
  /\ php' = [php EXCEPT ![c] = [@ EXCEPT !.pc = "readFile"]]
  /\ UNCHANGED <<cacheVars, sync>>

\* access is rejected: there is no such file, or it may not be read
AccessReject(c) ==
  /\ php[c].pc = "access"
  /\ ~Readable(php[c].aFilename)
  /\ php' = [php EXCEPT ![c] = Catch(@, "access")]
  /\ UNCHANGED <<cacheVars, sync>>

\* readFile is fulfilled: lines 31 to 59 run, and JSON.parse returns the
\* value or throws
ReadFileResolve(c) ==
  /\ php[c].pc = "readFile"
  /\ LET parsed == JsonParse(ToJson(FileContent(php[c].aFilename)))
     IN  php' = [php EXCEPT ![c] =
                   IF parsed.ok
                     THEN [@ EXCEPT !.pc = "done",
                                    !.result = Return(parsed.value)]
                     ELSE Catch(@, "SyntaxError")]
  /\ UNCHANGED <<cacheVars, sync>>

\* readFile is rejected: the file went away or changed after access
ReadFileReject(c) ==
  /\ php[c].pc = "readFile"
  /\ php' = [php EXCEPT ![c] = Catch(@, "readFile")]
  /\ UNCHANGED <<cacheVars, sync>>

PhpNext ==
  \/ \E c \in PhpCalls, aFilename \in Filenames :
       ParsePhpConfigStart(c, aFilename)
  \/ \E c \in PhpCalls : AccessResolve(c)
  \/ \E c \in PhpCalls : AccessReject(c)
  \/ \E c \in PhpCalls : ReadFileResolve(c)
  \/ \E c \in PhpCalls : ReadFileReject(c)

PhpSpec == Init /\ [][PhpNext]_vars

\* -------------------------------------------------- the quote step by itself
\* the values after =>: a number, two quoted texts, the three literals, a
\* constant and a text with a quote inside
QuoteValues ==
  { <<"1">>,
    <<"'", "x", "'">>,
    <<"\"", "y", "\"">>,
    <<"t", "r", "u", "e">>,
    <<"f", "a", "l", "s", "e">>,
    <<"n", "u", "l", "l">>,
    <<"E", "_", "A", "L", "L">>,
    <<"i", "t", "'", "s">> }

\* the white space between => and the value
QuoteSpaces ==
  { <<" ">>, <<" ", " ">>, <<"\n">>, <<" ", "\n">>, <<"\t">> }

\* what stands before => on the line and after the , of the value
QuotePrefixes == { <<>>, <<"'", "k", "'", " ">> }
QuoteSuffixes == { <<>>, <<"\n">> }

\* line 41 applied to the text prefix => space value , suffix
QuoteStep(prefix, space, value, suffix) ==
  /\ sync' = [op |-> "quote", prefix |-> prefix, space |-> space,
              value |-> value, suffix |-> suffix,
              ret |-> TheOne({QuoteBareValues(t, 1) : t \in
                        {prefix \o <<"=", ">">> \o space \o value
                           \o <<",">> \o suffix}})]
  /\ UNCHANGED <<cacheVars, php>>

QuoteNext ==
  \E prefix \in QuotePrefixes, space \in QuoteSpaces, value \in QuoteValues,
     suffix \in QuoteSuffixes :
    QuoteStep(prefix, space, value, suffix)

QuoteSpec == Init /\ [][QuoteNext]_vars

\* ------------------------------------------------------------------ claims
\* the step starts call c = nCalls + 1 as getOffset(zone)
StartsCall(zone) ==
  /\ nCalls' = nCalls + 1
  /\ aPhpTimezone'[nCalls'] = zone

\* the step is the continuation of call c after a fulfilled promise with
\* empty stderr (the else branch of lines 128 to 134)
Refreshes(c) == pc[c] = "await" /\ pc'[c] = "done" /\ logged'[c] = "debug"

\* the step is the continuation of call c after diagnostic output or a
\* rejected promise
Fails(c) == pc[c] = "await" /\ pc'[c] = "done" /\ logged'[c] = "error"

\* C1: a getOffset(z) that finds an entry for z younger than the cache
\* lifetime returns that entry's offset, invokes no external computation and
\* leaves the cache (the mapping and the Offset objects) unchanged.
C1_FreshHit ==
  [][\A z \in Zones :
       (/\ StartsCall(z)
        /\ z \in DOMAIN m_cache
        /\ now - heap[m_cache[z]].time < CACHE_LIFE)
       => (/\ pc'[nCalls'] = "done"
           /\ result'[nCalls'] = Return(heap[m_cache[z]].offset)
           /\ execs' = execs
           /\ m_cache' = m_cache
           /\ heap' = heap)]_vars

\* a call was served from an entry one millisecond short of the lifetime
C1_Witness ==
  \E c \in Calls :
    /\ pc[c] = "done"
    /\ execs[c] = 0
    /\ aPhpTimezone[c] \in DOMAIN m_cache
    /\ offset[c] = m_cache[aPhpTimezone[c]]
    /\ time[c] - heap[offset[c]].time = CACHE_LIFE - 1
    /\ result[c] = Return(heap[offset[c]].offset)

\* C2 as stated: on a new resolver, getOffset(z) twice in sequence inside one
\* cache lifetime invokes the external computation exactly once, whatever the
\* outcome of the first call.
C2_Original ==
  [][(/\ nCalls = 1
      /\ pc[1] = "done"
      /\ StartsCall(aPhpTimezone[1])
      /\ now - time[1] < CACHE_LIFE)
     => execs'[1] + execs'[2] = 1]_vars

\* C2 amended: exactly once when the first call's external computation was
\* fulfilled without diagnostic output; when it failed the second call
\* invokes the external computation again, twice in total.
C2_Amended ==
  [][(/\ nCalls = 1
      /\ pc[1] = "done"
      /\ StartsCall(aPhpTimezone[1])
      /\ now - time[1] < CACHE_LIFE)
     => execs'[1] + execs'[2] = (IF logged[1] = "debug" THEN 1 ELSE 2)]_vars

\* the second of two calls in sequence for one zone was a cache hit, one
\* millisecond short of the lifetime after the first
C2_Witness ==
  /\ nCalls >= 2
  /\ aPhpTimezone[2] = aPhpTimezone[1]
  /\ logged[1] = "debug"
  /\ time[2] - time[1] = CACHE_LIFE - 1
  /\ pc[2] = "done"
  /\ execs[1] = 1
  /\ execs[2] = 0

\* C3: a getOffset(z) that finds an entry for z whose age is the lifetime or
\* more invokes the external computation once at its start, and no call ever
\* invokes it again afterwards (no retry): a call's count stays at one.
C3_StaleRefreshOnce ==
  [][/\ \A z \in Zones :
          (/\ StartsCall(z)
           /\ z \in DOMAIN m_cache
           /\ now - heap[m_cache[z]].time >= CACHE_LIFE)
          => (pc'[nCalls'] = "await" /\ execs'[nCalls'] = 1)
     /\ \A c \in Calls :
          /\ execs'[c] <= 1
          /\ pc[c] # "idle" => execs'[c] = execs[c]]_vars

\* a call found an entry whose age was exactly the lifetime, invoked the
\* external computation once and has completed
C3_Witness ==
  \E c1, c2 \in Calls :
    /\ c1 < c2
    /\ aPhpTimezone[c1] = aPhpTimezone[c2]
    /\ logged[c1] = "debug"
    /\ offset[c2] = offset[c1]
    /\ time[c2] - time[c1] = CACHE_LIFE
    /\ pc[c2] = "done"
    /\ execs[c2] = 1

\* the cache entry of a zone: the set holding its Offset, empty when the zone
\* is not cached
Entry(cache, objects, zone) ==
  IF zone \in DOMAIN cache THEN {objects[cache[zone]]} ELSE {}

\* the value the summer table holds for a zone, 0 for a zone it does not hold
SummerOrZero(zone) ==
  IF zone \in DOMAIN s_summerTimezones THEN s_summerTimezones[zone] ELSE 0

\* C4 as stated: when the external computation is fulfilled without
\* diagnostic output and with a number on stdout, the call returns that
\* number, the entry of its zone then holds the number and the call's time,
\* and a getOffset for the zone started right after the return is a cache hit
\* (the entry passes the freshness test at the clock's value).
C4_Original ==
  [][\A c \in Calls :
       (Refreshes(c) /\ ~result'[c].value.isNaN)
       => LET z == aPhpTimezone[c]
          IN /\ result'[c].kind = "return"
             /\ \E stdout \in Stdouts : result'[c].value = ParseInt(stdout)
             /\ Entry(m_cache', heap', z)
                  = {[offset |-> result'[c].value, time |-> time[c]]}
             /\ \A o \in Entry(m_cache', heap', z) : now' - o.time < CACHE_LIFE]_vars

\* C5: a call whose external computation fails returns the summer table's
\* value for its zone, or 0 for a zone the table does not hold, whether or
\* not the call found an entry for the zone, and whatever the winter table
\* holds.
C5_FailureFallback ==
  [][\A c \in Calls :
       Fails(c) => result'[c] = Return(Num(SummerOrZero(aPhpTimezone[c])))]_vars

\* a failed call that had found a (stale) entry returned a fallback value
\* that differs from the entry's offset and from the winter table's value
C5_Witness ==
  \E c \in Calls :
    /\ pc[c] = "done"
    /\ logged[c] = "error"
    /\ offset[c] # c
    /\ result[c].value # heap[offset[c]].offset
    /\ result[c].value # Num(s_winterTimezones[aPhpTimezone[c]])

\* C6 as stated: a failed getOffset("Europe/London") returns 0.
C6_Original ==
  [][\A c \in Calls :
       (Fails(c) /\ aPhpTimezone[c] = "Europe/London")
       => result'[c] = Return(Num(0))]_vars

\* C6 amended: a failed getOffset("Europe/London") returns 3600, the value
\* of Europe/London in the summer table.
C6_Amended ==
  [][\A c \in Calls :
       (Fails(c) /\ aPhpTimezone[c] = "Europe/London")
       => result'[c] = Return(Num(3600))]_vars

\* a getOffset("Europe/London") has failed and returned
C6_Witness ==
  \E c \in Calls :
    /\ pc[c] = "done"
    /\ logged[c] = "error"
    /\ execs[c] = 1
    /\ aPhpTimezone[c] = "Europe/London"
    /\ result[c].kind = "return"

\* C7 as stated: when the promise is fulfilled with empty stderr and a
\* stdout that is no number, the call returns the fallback value of its zone
\* and stores nothing in the cache.
C7_Original ==
  [][\A c \in Calls, stdout \in Stdouts :
       (ParseInt(stdout).isNaN /\ ExecResolve(c, stdout, <<>>))
       => (/\ result'[c] = Return(Num(SummerOrZero(aPhpTimezone[c])))
           /\ m_cache' = m_cache
           /\ heap' = heap)]_vars

\* C8: a call is not started, suspended in the external computation, or
\* completed by a return of a javascript number; no call completes by an
\* exception, whatever way the external computation settled.
C8_AlwaysReturns ==
  \A c \in Calls :
    /\ pc[c] \in {"idle", "await", "done"}
    /\ pc[c] = "done"
         => (/\ result[c].kind = "return"
             /\ result[c].value.isNaN \in BOOLEAN
             /\ result[c].value.val \in Int)
    /\ pc[c] # "done" => result[c] = NoResult

\* a call has completed after a failed external computation and another
\* after a fulfilled one
C8_Witness ==
  \E c1, c2 \in Calls :
    /\ pc[c1] = "done" /\ logged[c1] = "error" /\ execs[c1] = 1
    /\ pc[c2] = "done" /\ logged[c2] = "debug" /\ execs[c2] = 1
    /\ result[c1].kind = "return"
    /\ result[c2].kind = "return"

\* the calls suspended in the external computation for a zone
InFlight(state, zones, zone) ==
  {c \in Calls : state[c] = "await" /\ zones[c] = zone}

\* C9: a getOffset(z) that starts while another getOffset(z) is suspended in
\* its external computation, and that finds no entry for z or a stale one,
\* invokes the external computation too: two php processes run for z.
C9_NoDedup ==
  [][\A z \in Zones :
       (/\ StartsCall(z)
        /\ InFlight(pc, aPhpTimezone, z) # {}
        /\ \A o \in Entry(m_cache, heap, z) : now - o.time >= CACHE_LIFE)
       => (/\ pc'[nCalls'] = "await"
           /\ execs'[nCalls'] = 1
           /\ Cardinality(InFlight(pc', aPhpTimezone', z))
                = Cardinality(InFlight(pc, aPhpTimezone, z)) + 1)]_vars

\* two calls for one zone, the second started after the first, are suspended
\* in their external computations at the same time
C9_Witness ==
  \E c1, c2 \in Calls :
    /\ c1 < c2
    /\ pc[c1] = "await" /\ pc[c2] = "await"
    /\ aPhpTimezone[c1] = aPhpTimezone[c2]
    /\ time[c1] < time[c2]
    /\ execs[c1] = 1 /\ execs[c2] = 1

\* C10: the entry of a zone changes only in the continuation of a fulfilled
\* external computation for that zone, and that step replaces it by the pair
\* of that one call: the number parsed from its stdout and its time.  So the
\* entry is absent or the pair of one refresh, and after overlapping calls
\* it is the pair of the refresh that completed last.
C10_LastWriteWins ==
  [][\A z \in Zones :
       IF \E c \in Calls : Refreshes(c) /\ aPhpTimezone[c] = z
         THEN \E c \in Calls, stdout \in Stdouts :
                /\ Refreshes(c)
                /\ aPhpTimezone[c] = z
                /\ result'[c].value = ParseInt(stdout)
                /\ Entry(m_cache', heap', z)
                     = {[offset |-> ParseInt(stdout), time |-> time[c]]}
         ELSE Entry(m_cache', heap', z) = Entry(m_cache, heap, z)]_vars

\* two overlapping refreshes of one zone have completed, the one that
\* started first completed last, and the entry is its pair
C10_Witness ==
  /\ nCalls = 2
  /\ aPhpTimezone[1] = aPhpTimezone[2]
  /\ pc[1] = "done" /\ logged[1] = "debug"
  /\ pc[2] = "done" /\ logged[2] = "debug"
  /\ time[1] < time[2]
  /\ result[1].value # result[2].value
  /\ Entry(m_cache, heap, aPhpTimezone[1])
       = {[offset |-> result[1].value, time |-> time[1]]}

\* C11: while a getOffset(z1) is suspended in its external computation, a
\* getOffset(z2) for another zone can start (as long as calls remain to be
\* made), and a getOffset(z2) that is suspended too can complete, with either
\* outcome, without the z1 call settling first.
C11_NoBlocking ==
  \A c1 \in Calls :
    pc[c1] = "await"
    => /\ \A z2 \in Zones \ {aPhpTimezone[c1]} :
            nCalls < MaxCalls => ENABLED GetOffsetStart(z2)
       /\ \A c2 \in Calls :
            (pc[c2] = "await" /\ aPhpTimezone[c2] # aPhpTimezone[c1])
            => /\ \A stdout \in Stdouts, stderr \in Stderrs :
                    ENABLED ExecResolve(c2, stdout, stderr)
               /\ \A error \in ExecErrors : ENABLED ExecReject(c2, error)

\* a call for one zone started after a call for another zone, refreshed its
\* entry and returned, while the earlier call is still suspended
C11_Witness ==
  \E c1, c2 \in Calls :
    /\ c1 < c2
    /\ pc[c1] = "await"
    /\ pc[c2] = "done"
    /\ aPhpTimezone[c1] # aPhpTimezone[c2]
    /\ execs[c2] = 1
    /\ logged[c2] = "debug"
    /\ aPhpTimezone[c2] \in DOMAIN m_cache

\* C12: the cache is empty after construction and no step removes a zone
\* name from it.
C12_CacheGrows ==
  /\ DOMAIN m_cache = {}
  /\ [][DOMAIN m_cache \subseteq DOMAIN m_cache']_vars

\* the cache has grown to two entries
C12_Witness == Cardinality(DOMAIN m_cache) = 2

\* C13 as stated: after any completed getOffset(z) the cache holds an entry
\* for z.
C13_Original ==
  \A c \in Calls : pc[c] = "done" => aPhpTimezone[c] \in DOMAIN m_cache

\* C13 amended: the cache holds an entry for z after a getOffset(z) that was
\* a cache hit or whose external computation was fulfilled without
\* diagnostic output; a call whose external computation failed adds none.
\* The cached names are those of the zones for which a refresh has completed.
C13_Amended ==
  /\ \A c \in Calls :
       (pc[c] = "done" /\ (execs[c] = 0 \/ logged[c] = "debug"))
       => aPhpTimezone[c] \in DOMAIN m_cache
  /\ DOMAIN m_cache
       = {aPhpTimezone[c] : c \in {d \in Calls : pc[d] = "done" /\ logged[d] = "debug"}}

\* one call has refreshed its zone, which is cached, and another has failed
\* for a zone that is not cached
C13_Witness ==
  \E c1, c2 \in Calls :
    /\ pc[c1] = "done" /\ logged[c1] = "debug"
    /\ aPhpTimezone[c1] \in DOMAIN m_cache
    /\ pc[c2] = "done" /\ logged[c2] = "error"
    /\ aPhpTimezone[c2] \notin DOMAIN m_cache

\* C14: a getOffset(z) for a zone that is not in the cache never returns at
\* the freshness test: whatever the clock shows, it invokes the external
\* computation and is suspended without a result.
C14_NewEntryStale ==
  [][\A z \in Zones :
       (StartsCall(z) /\ z \notin DOMAIN m_cache)
       => (/\ pc'[nCalls'] = "await"
           /\ execs'[nCalls'] = 1
           /\ result'[nCalls'] = NoResult
           /\ offset'[nCalls'] = nCalls'
           /\ heap'[nCalls'] = [offset |-> Num(0), time |-> -CACHE_LIFE])]_vars

\* calls for a zone that is not cached were made with the clock at 0 and
\* with the clock past the lifetime, and both invoked the external
\* computation
C14_Witness ==
  \E c1, c2 \in Calls :
    /\ offset[c1] = c1 /\ time[c1] = 0 /\ execs[c1] = 1
    /\ offset[c2] = c2 /\ time[c2] > CACHE_LIFE /\ execs[c2] = 1

\* two calls made one after the other for one zone, the second started less
\* than a cache lifetime after the first, have both returned
SequentialPair(c1, c2) ==
  /\ c2 = c1 + 1
  /\ c2 <= nCalls
  /\ pc[c1] = "done"
  /\ pc[c2] = "done"
  /\ aPhpTimezone[c1] = aPhpTimezone[c2]
  /\ time[c2] - time[c1] < CACHE_LIFE

\* the Date that getServerFromLocalDate returns for the Date that
\* getLocalFromServerDate returned, the conversions having obtained the
\* values of calls c1 and c2 from getOffset
RoundTrip(server, d, c1, c2) ==
  GetServerFromLocalDate(
    server, GetLocalFromServerDate(server, NewDate(Num(d)), result[c1].value),
    result[c2].value)

\* C15 as stated (under SeqSpec), on a server without daylight saving time
\* and for calls that returned numbers: converting a server date to a zone's
\* local time and the result back, both conversions inside one cache
\* lifetime, yields the original date whatever the outcomes of the external
\* computations.
C15_Original ==
  \A c1, c2 \in Calls, d \in DateInputs :
    (/\ SequentialPair(c1, c2)
     /\ ~result[c1].value.isNaN
     /\ ~result[c2].value.isNaN)
    => RoundTrip("fixed", d, c1, c2) = NewDate(Num(d))

\* C15 amended (under SeqSpec): the round trip yields the original date when
\* both getOffset calls return the same number and the server's own UTC
\* offset is the same at the original date and at the local date; the two
\* calls return the same value when the first was fulfilled without
\* diagnostic output (the second is then a cache hit).
C15_Amended ==
  \A c1, c2 \in Calls, server \in ServerZones, d \in DateInputs :
    SequentialPair(c1, c2)
    => LET local == GetLocalFromServerDate(server, NewDate(Num(d)), result[c1].value)
       IN /\ logged[c1] = "debug"
               => (execs[c2] = 0 /\ result[c2] = result[c1])
          /\ (/\ result[c1].value = result[c2].value
              /\ ~result[c1].value.isNaN
              /\ GetTimezoneOffset(server, local)
                   = GetTimezoneOffset(server, NewDate(Num(d))))
             => RoundTrip(server, d, c1, c2) = NewDate(Num(d))

\* a round trip whose first call refreshed the cache with a number and whose
\* second call was a cache hit
C15_Witness ==
  \E c1, c2 \in Calls :
    /\ SequentialPair(c1, c2)
    /\ logged[c1] = "debug"
    /\ ~result[c1].value.isNaN
    /\ result[c1].value.val # 0
    /\ execs[c2] = 0
    /\ RoundTrip("switching", 0, c1, c2) = NewDate(Num(0))

\* C16: for the number v that a getOffset call returns, and any server date
\* d, getLocalFromServerDate returns d + 60000 * (the server's own UTC offset
\* in minutes at d) + 1000 * v; and for any local date d, getUtcFromLocalDate
\* returns d - 1000 * v.
C16_Formulas ==
  \A c \in Calls, server \in ServerZones, d \in DateInputs :
    (pc[c] = "done" /\ ~result[c].value.isNaN)
    => LET v == result[c].value.val
           minutes == IF server = "fixed" THEN 0
                      ELSE IF d < DstStart THEN -60 ELSE -120
       IN /\ GetLocalFromServerDate(server, NewDate(Num(d)), result[c].value)
               = NewDate(Num(d + minutes * 60000 + v * 1000))
          /\ GetUtcFromLocalDate(NewDate(Num(d)), result[c].value)
               = NewDate(Num(d - v * 1000))

\* calls have returned a negative number from php and a positive number from
\* the fallback table
C16_Witness ==
  \E c1, c2 \in Calls :
    /\ pc[c1] = "done" /\ logged[c1] = "debug" /\ result[c1].value = Num(-1800)
    /\ pc[c2] = "done" /\ logged[c2] = "error" /\ result[c2].value = Num(3600)

\* ---- C17
\* text contains sub somewhere, capitals and small letters being different
Contains(text, sub) ==
  \E i \in 1..Len(text) :
    /\ i + Len(sub) - 1 <= Len(text)
    /\ \A j \in 1..Len(sub) : text[i + j - 1] = sub[j]

\* the step is a call of is24
Is24Step == sync'.op = "is24" /\ (sync.op = "is24" => sync'.zone # sync.zone)

\* C17: is24 returns false exactly when the zone name contains "America" or
\* "London" with these capitals, and true for every other name (false for
\* America/New_York and Europe/London, true for Europe/Paris); a call of it
\* leaves the cache, the cached objects and the number of php runs as they are.
C17_Is24 ==
  /\ [](sync.op = "is24" =>
         /\ sync.ret = FALSE <=>
              \/ Contains(ZoneChars(sync.zone), <<"A", "m", "e", "r", "i", "c", "a">>)
              \/ Contains(ZoneChars(sync.zone), <<"L", "o", "n", "d", "o", "n">>)
         /\ sync.zone = "America/New_York" => sync.ret = FALSE
         /\ sync.zone = "Europe/Paris" => sync.ret = TRUE
         /\ sync.zone = "Europe/London" => sync.ret = FALSE)
  /\ [][Is24Step => UNCHANGED <<m_cache, heap, execs, pc, result>>]_vars

C17_Witness ==
  /\ sync.op = "is24"
  /\ sync.zone = "Europe/London"
  /\ sync.ret = FALSE
  /\ "Europe/London" \in DOMAIN m_cache
  /\ execs[1] = 1

\* ---- C18
\* the hour a 12 hour clock shows for each hour of the day, from 0 to 23
Hour12 == <<12, 1, 2, 3, 4, 5, 6, 7, 8, 9, 10, 11,
            12, 1, 2, 3, 4, 5, 6, 7, 8, 9, 10, 11>>

\* n below 100 written with two digits
Padded(n) == <<DigitChar(n \div 10), DigitChar(n % 10)>>

\* n below 100 written without a leading 0
Plain(n) == IF n >= 10 THEN Padded(n) ELSE <<DigitChar(n)>>

\* the text the claim asks for
ExpectedTime(h, m, s, is24, withSeconds) ==
  (IF is24 THEN Plain(h) ELSE Plain(Hour12[h + 1]))
  \o <<":">> \o Padded(m)
  \o (IF withSeconds THEN <<":">> \o Padded(s) ELSE <<>>)
  \o (IF is24 THEN <<>> ELSE IF h <= 11 THEN <<" ", "a", "m">> ELSE <<" ", "p", "m">>)

\* C18: for every hour h from 0 to 23, minute and second, getLocalTime in 12
\* hour mode shows 12 for h = 0 and h = 12 and h mod 12 otherwise, minutes and
\* seconds with two digits, and " am" for h up to 11, " pm" from 12 on; in 24
\* hour mode it shows h as it is and no suffix. 0:05 gives "12:05 am" and
\* 13:30:09 with seconds gives "1:30:09 pm".
C18_LocalTimeText ==
  sync.op = "getLocalTime" =>
    LET d == sync.localDate
        is24 == sync.zone = "Europe/Paris"
    IN  /\ sync.ret = ExpectedTime(d.hours, d.minutes, d.seconds, is24,
                                   sync.anIncludeSeconds)
        /\ (~is24 /\ d.hours = 0 /\ d.minutes = 5
               /\ ~sync.anIncludeSeconds)
             => sync.ret = <<"1", "2", ":", "0", "5", " ", "a", "m">>
        /\ (~is24 /\ d.hours = 13 /\ d.minutes = 30 /\ d.seconds = 9
               /\ sync.anIncludeSeconds)
             => sync.ret = <<"1", ":", "3", "0", ":", "0", "9", " ", "p", "m">>

C18_Witness ==
  /\ sync.op = "getLocalTime"
  /\ sync.zone = "Europe/London"
  /\ sync.localDate = [hours |-> 12, minutes |-> 5, seconds |-> 9]
  /\ sync.anIncludeSeconds
  /\ sync.ret = <<"1", "2", ":", "0", "5", ":", "0", "9", " ", "p", "m">>

\* ---- C19
\* C19: parsePhpConfig never ends by an exception: a call that waits for
\* access goes on whether access is fulfilled or rejected, a call that waits
\* for readFile goes on when readFile is rejected, a call that ended has
\* returned, and it has returned false when the file is missing or may not be
\* read and whenever access, readFile or JSON.parse threw.
C19_NeverRaises ==
  \A c \in PhpCalls :
    /\ php[c].pc \in {"idle", "access", "readFile", "done"}
    /\ php[c].pc = "access" => ENABLED (AccessResolve(c) \/ AccessReject(c))
    /\ php[c].pc = "readFile" => ENABLED ReadFileReject(c)
    /\ php[c].pc # "done" => php[c].result.kind = "none"
    /\ php[c].pc = "done" =>
         /\ php[c].result.kind = "return"
         /\ php[c].error # "none" => php[c].result = Return(JsFalse)
         /\ ~Readable(php[c].aFilename) =>
              /\ php[c].error = "access"
              /\ php[c].result = Return(JsFalse)

\* one call has ended for the name without a file and another for the file
\* whose text JSON.parse rejects
C19_Witness ==
  \E c1, c2 \in PhpCalls :
    /\ php[c1].pc = "done"
    /\ php[c1].aFilename = "missing.php"
    /\ php[c1].result = Return(JsFalse)
    /\ php[c2].pc = "done"
    /\ php[c2].aFilename = "broken.php"
    /\ php[c2].error = "SyntaxError"
    /\ php[c2].result = Return(JsFalse)

\* ---- C20
\* the value {"a": 1, "b": "x", "c": true}
ExpectedConfig ==
  JsObject({ <<(<<"a">>), JsNumber(<<"1">>)>>,
             <<(<<"b">>), JsString(<<"x">>)>>,
             <<(<<"c">>), JsTrue>> })

\* C20: for the file <?php return [ 'a' => 1, 'b' => 'x', 'c' => true, ]; on
\* five lines, with a comma after the last element, the steps of lines 34 to
\* 57 in their order and JSON.parse give {"a": 1, "b": "x", "c": true}: a
\* call that has read this file returns that value.
C20_ExampleConfig ==
  \A c \in PhpCalls :
    (/\ php[c].pc = "done"
     /\ php[c].aFilename = "config.php"
     /\ php[c].error # "readFile")
    => php[c].result = Return(ExpectedConfig)

C20_Witness ==
  \E c \in PhpCalls :
    /\ php[c].pc = "done"
    /\ php[c].aFilename = "config.php"
    /\ php[c].error = "none"
    /\ php[c].result.value.type = "object"
    /\ Cardinality(php[c].result.value.members) = 3

\* ---- C21
\* the value as the claim wants it after the step: in single quotes, with its
\* own single quotes escaped, exactly when it starts with no digit and no
\* quote character and is not true, false or null
ClaimedValue(value) ==
  IF \/ value[1] \in Digits \cup {"'", "\""}
     \/ value \in { <<"t", "r", "u", "e">>, <<"f", "a", "l", "s", "e">>, <<"n", "u", "l", "l">> }
    THEN value
    ELSE <<"'">> \o ReplaceAll(value, 1, <<"'">>, <<"\\", "'">>) \o <<"'">>

\* C21: the quote step, for every => value , and whatever white space stands
\* between => and the value, puts the value in single quotes exactly when it
\* starts with no digit and no quote character and is not true, false or
\* null, and leaves a value that starts with a digit or a quote character as
\* it is. The white space after => may stay or become one space.
C21_Original ==
  sync.op = "quote" =>
    \E space \in {sync.space, <<" ">>} :
      sync.ret = sync.prefix \o <<"=", ">">> \o space
                   \o ClaimedValue(sync.value) \o <<",">> \o sync.suffix

\* ---- C22
\* the step leaves every zone's entry, and the set of cached zones, as it was
CacheUnchanged ==
  /\ DOMAIN m_cache' = DOMAIN m_cache
  /\ \A z \in Zones : Entry(m_cache', heap', z) = Entry(m_cache, heap, z)

\* after the step a getOffset(zone) would not be served from the cache
WouldRefresh(zone) ==
  \A o \in Entry(m_cache', heap', zone) : o.time + CACHE_LIFE <= now'

\* C22 as stated: a getOffset(z) whose external computation fails leaves the
\* cached zones and the offset and time of every entry as they were, at its
\* start and at its failure, and the next getOffset(z), started right after
\* the failure, runs the external computation again.
C22_Original ==
  [][/\ \A z \in Zones : StartsCall(z) => CacheUnchanged
     /\ \A c \in Calls :
          Fails(c) => (CacheUnchanged /\ WouldRefresh(aPhpTimezone[c]))]_vars

\* C22 amended: the steps of a failing call leave the cache as it was and the
\* fallback value is not stored; a getOffset(z) started right after the
\* failure runs the external computation again unless another getOffset(z)
\* has refreshed the entry while the failing call was suspended (the entry
\* is then that call's pair).
C22_Amended ==
  [][/\ \A z \in Zones : StartsCall(z) => CacheUnchanged
     /\ \A c \in Calls :
          Fails(c) =>
            /\ CacheUnchanged
            /\ \/ WouldRefresh(aPhpTimezone[c])
               \/ \E c2 \in Calls \ {c} :
                    /\ aPhpTimezone[c2] = aPhpTimezone[c]
                    /\ pc[c2] = "done" /\ logged[c2] = "debug"
                    /\ execs[c2] = 1
                    /\ Entry(m_cache', heap', aPhpTimezone[c])
                         = {[offset |-> result[c2].value,
                             time |-> time[c2]]}]_vars

\* a call has failed that had found an entry older than the lifetime, and the
\* entry is still the one it found, with its old time
C22_Witness ==
  \E c \in Calls :
    /\ pc[c] = "done"
    /\ logged[c] = "error"
    /\ offset[c] # c
    /\ aPhpTimezone[c] \in DOMAIN m_cache
    /\ m_cache[aPhpTimezone[c]] = offset[c]
    /\ heap[offset[c]].time + CACHE_LIFE <= time[c]

\* ---- C23
\* C23 as stated: the time of a zone's entry never decreases, also when
\* getOffset calls for the zone overlap: no step replaces the time of an
\* entry by an earlier one.
C23_Original ==
  [][\A z \in Zones :
       \A before \in Entry(m_cache, heap, z), after \in Entry(m_cache', heap', z) :
         after.time >= before.time]_vars

====
